---- MODULE Spec2Model ----
(***************************************************************************)
(* Model of elasticstore's FirestoreCollectionHandler: the record filter,  *)
(* the per-parent listener registry of subcollection mode, and the change  *)
(* dispatcher (handleAdded / handleModified / handleRemoved) writing into  *)
(* the Elasticsearch sink.                                                 *)
(***************************************************************************)
EXTENDS Integers, Sequences, FiniteSets, TLC

\* ---------------------------------------------------------------- bounds
MaxBatch == 2
MaxDocEvents == 2
MaxParentEvents == 3
MaxFailures == 1
MaxSubDocEvents == 1

\* ------------------------------------------------------------ JS values
\* Optional values: an unset property is None, a set one is Some(x).
None == << >>
Some(x) == << x >>

\* Field values of a Firestore document, as JavaScript values.
JsFalse == "false"
JsZero == "0"
JsEmpty == "''"
JsNull == "null"
JsOne == "1"
JsStr == "'x'"
Values == {JsFalse, JsZero, JsEmpty, JsNull, JsOne, JsStr}

\* JavaScript truthiness, as tested by `if (data[key])`.
Truthy(v) == v \notin {JsFalse, JsZero, JsEmpty, JsNull}

Keys == {"a", "b"}

\* A JavaScript object: its fields in insertion order, keys distinct.
Field(k, v) == [k |-> k, v |-> v]
ObjectsOver(K, V) ==
  {<< >>}
  \cup {<<Field(k, v)>> : k \in K, v \in V}
  \cup {<<Field(p[1], v1), Field(p[2], v2)>> :
          p \in {q \in K \X K : q[1] # q[2]}, v1 \in V, v2 \in V}

KeysOf(obj) == {obj[i].k : i \in DOMAIN obj}
Get(obj, key) == (CHOOSE i \in DOMAIN obj : obj[i].k = key)
HasKey(obj, key) == key \in KeysOf(obj)
\* data[key]: undefined (falsy) when the key is absent
ValueTruthy(obj, key) == HasKey(obj, key) /\ Truthy(obj[Get(obj, key)].v)

\* --------------------------------------------------------- the descriptor
\* this.record: the Reference descriptor (filter / include / exclude /
\* transform / subcollection are optional properties).
FilterFns == {"aTruthy"}
FilterCall(fn, obj) == ValueTruthy(obj, "a")

\* {...data, b: 'x'}: a sample transform in the shape of the catalogue's
TransformCall(obj) ==
  IF HasKey(obj, "b")
  THEN [i \in DOMAIN obj |-> IF obj[i].k = "b" THEN Field("b", JsStr) ELSE obj[i]]
  ELSE Append(obj, Field("b", JsStr))

Records(subc, filters, includes, excludes, transforms) ==
  [subcollection : subc, filter : filters, include : includes,
   exclude : excludes, transform : transforms]

OptKeySets == {None} \cup {Some(S) : S \in SUBSET Keys}

VARIABLES record, data, out,
          watcher, subs, listeners, nParentEv,
          handlers, sink, sink0, issued, evlog, failed, unhandled

\* SearchHandler: the control collection, the query listener's result set,
\* searches in flight, store writes in flight, per-record history, the
\* error escaping the snapshot callback, the clock, the timers, the handle
\* in this.unsubscribe and the cleanup passes in progress.
VARIABLES ctl, created, view, searches, writes, stats, thrown,
          now, timers, unsubscribe, sweeps, armed

\* bind() of several handlers against one Elasticsearch: each handler's
\* descriptor and position, the indices of the sink, the indices calls
\* issued and the rejected ones.
VARIABLES binders, indices, blog, bfail

bindVars == <<binders, indices, blog, bfail>>
bridgeVars == <<ctl, created, view, searches, writes, stats, thrown>>
cleanupVars == <<now, timers, unsubscribe, sweeps, armed>>

vars == <<record, data, out, watcher, subs, listeners, nParentEv,
          handlers, sink, sink0, issued, evlog, failed, unhandled,
          bridgeVars, cleanupVars, bindVars>>

\* ------------------------------------------------------------------ filter
\* FirestoreHandler.filter: None models the null return.
\* (a filter that never consults record.filter)
shouldInsert_always(rec, obj) == TRUE

shouldInsert(rec, obj) ==
  IF rec.filter # None THEN FilterCall(rec.filter[1], obj) ELSE TRUE

applyInclude(rec, obj) ==
  IF rec.include # None
  THEN SelectSeq(obj, LAMBDA f : f.k \in rec.include[1])
  ELSE obj

applyExclude(rec, obj) ==
  IF rec.exclude # None
  THEN SelectSeq(obj, LAMBDA f : ~(f.k \in rec.exclude[1] /\ Truthy(f.v)))
  ELSE obj

filter(rec, obj) ==
  IF ~shouldInsert(rec, obj)
  THEN None
  ELSE Some(applyExclude(rec, applyInclude(rec, obj)))

\* ------------------------------------------------------------------- sink
\* The Elasticsearch index at (index, type): _source per document id.
DocIds == {"d1", "d2"}

\* JSON body -> _source: a mapping from field name to value
ToSource(obj) == [key \in KeysOf(obj) |-> obj[Get(obj, key)].v]

\* partial update: the fields of the partial document overwrite the stored ones
Merge(old, new) ==
  [key \in DOMAIN old \cup DOMAIN new |->
     IF key \in DOMAIN new THEN new[key] ELSE old[key]]

\* What the sink does with one call: <<new sink, "ok" | "true" | "false" | "err">>
\*   exists -> true/false; index -> create or replace; update with
\*   doc_as_upsert -> merge or create; update -> merge, 404 when missing;
\*   delete -> remove, 404 when missing.
SinkApply(s, call) ==
  LET id == call.id
      src == ToSource(call.body)
  IN CASE call.op = "exists" ->
            <<s, IF s[id] # None THEN "true" ELSE "false">>
       [] call.op = "index" ->
            <<[s EXCEPT ![id] = Some(src)], "ok">>
       [] call.op = "upsert" ->
            <<[s EXCEPT ![id] = IF s[id] # None THEN Some(Merge(s[id][1], src))
                                 ELSE Some(src)], "ok">>
       [] call.op = "update" ->
            IF s[id] # None
            THEN <<[s EXCEPT ![id] = Some(Merge(s[id][1], src))], "ok">>
            ELSE <<s, "err">>
       [] call.op = "delete" ->
            IF s[id] # None
            THEN <<[s EXCEPT ![id] = None], "ok">>
            ELSE <<s, "err">>

\* ------------------------------------------------------------- dispatcher
Call(ev, sub, op, id, body) ==
  [ev |-> ev, sub |-> sub, op |-> op, id |-> id, body |-> body]

\* The body handleAdded / handleModified send: filter, then transform.
\* None when filtering has excluded the record.
pipeline(rec, obj) ==
  LET body == filter(rec, obj)
  IN IF body = None THEN None
     ELSE IF rec.transform THEN Some(TransformCall(body[1]))
     ELSE body

\* The synchronous part of a handler, up to its first await: the sink call
\* it issues, or None when it returns without one.
handleAdded(rec, ev, sub, e) ==
  LET body == pipeline(rec, e.data)
  IN IF body = None THEN None
     ELSE Some(Call(ev, sub, "exists", e.id, body[1]))

handleModified(rec, ev, sub, e) ==
  LET body == pipeline(rec, e.data)
  IN IF body = None THEN None
     ELSE Some(Call(ev, sub, "update", e.id, body[1]))

handleRemoved(rec, ev, sub, e) ==
  Some(Call(ev, sub, "delete", e.id, << >>))

\* switch (changeType) of handleSnapshot
dispatch(rec, ev, sub, e) ==
  CASE e.kind = "added" -> handleAdded(rec, ev, sub, e)
    [] e.kind = "modified" -> handleModified(rec, ev, sub, e)
    [] e.kind = "removed" -> handleRemoved(rec, ev, sub, e)

\* snap.docChanges().forEach: the calls issued by a batch, in batch order;
\* the first event of the batch has number ev0 + 1.
RECURSIVE batchCalls(_, _, _, _)
batchCalls(rec, ev0, sub, batch) ==
  IF batch = << >> THEN << >>
  ELSE LET n == Len(batch)
           c == dispatch(rec, ev0 + n, sub, batch[n])
       IN batchCalls(rec, ev0, sub, SubSeq(batch, 1, n - 1)) \o c

Range(s) == {s[i] : i \in DOMAIN s}

\* (a plain update whatever the exists check said)
addedWrite_plainUpdate(call, exists) == [call EXCEPT !.op = "update"]

\* handleAdded after `await this.client.exists`: update-as-upsert when the
\* document exists, index otherwise.
addedWrite(call, exists) ==
  IF exists THEN [call EXCEPT !.op = "upsert"] ELSE [call EXCEPT !.op = "index"]

\* (an await outside try: the rejection escapes, the batch's other handlers
\* and the subscription go down with it)
onReject_escapes(st, call) ==
  <<{}, [h \in DOMAIN st[2] |->
           IF h = call.sub THEN [st[2][h] EXCEPT !.live = FALSE] ELSE st[2][h]],
    TRUE>>

\* A rejected sink call, on <<handlers, subs, unhandled>>: every await of a
\* handler is inside its try block, so catch (e) { console.error(...) } ends
\* the handler of that one event and nothing else happens.
onReject(st, call) == <<st[1] \ {call}, st[2], st[3]>>

\* ---------------------------------------------------------------- registry
Parents == {"P1", "P2"}
Root == "root"
Sub(parent) == [parent |-> parent, live |-> TRUE]

\* (a removal that tears down every listener instead of the parent's own)
onParentChange_cancelAll(st, e) ==
  LET ls == st[1]
      ss == st[2]
  IN CASE e.kind = "added" ->
            <<[ls EXCEPT ![e.id] = Len(ss) + 1], Append(ss, Sub(e.id))>>
       [] e.kind = "removed" ->
            IF ls[e.id] # 0
            THEN <<ls, [h \in DOMAIN ss |->
                         IF ss[h].parent # Root THEN [ss[h] EXCEPT !.live = FALSE]
                         ELSE ss[h]]>>
            ELSE st
       [] OTHER -> st

\* One change of handleBindingSubcollection's forEach, on <<listeners, subs>>:
\*   added   -> open a subscription on the subcollection, keep its
\*              unsubscribe function in this.listeners[id]
\*   removed -> call this.listeners[id] when there is one
onParentChange(st, e) ==
  LET ls == st[1]
      ss == st[2]
  IN CASE e.kind = "added" ->
            <<[ls EXCEPT ![e.id] = Len(ss) + 1], Append(ss, Sub(e.id))>>
       [] e.kind = "removed" ->
            IF ls[e.id] # 0
            THEN <<ls, [ss EXCEPT ![ls[e.id]].live = FALSE]>>
            ELSE st
       [] OTHER -> st

RECURSIVE handleBindingSubcollection(_, _)
handleBindingSubcollection(st, batch) ==
  IF batch = << >> THEN st
  ELSE handleBindingSubcollection(onParentChange(st, Head(batch)), Tail(batch))

\* ------------------------------------------------------------- environment
Kinds == {"added", "modified", "removed"}
ParentEvents == [kind : Kinds, id : Parents]
DocEvent(kind, id, obj) == [kind |-> kind, id |-> id, data |-> obj]

BatchesOf(S) == UNION {[1..n -> S] : n \in 1..MaxBatch}

\* ------------------------------------------------------------------ actions
\* bind(), record.mappings unset: open the root subscription
Bind ==
  /\ watcher = "Unbound"
  /\ watcher' = "Bound"
  /\ subs' = <<Sub(Root)>>
  /\ UNCHANGED <<record, data, out, listeners, nParentEv, handlers, sink,
                 sink0, issued, evlog, failed, unhandled>>
  /\ UNCHANGED <<bridgeVars, cleanupVars, bindVars>>

\* The root subscription of a subcollection descriptor delivers a batch of
\* parent changes to handleBindingSubcollection.
DeliverParents(batch) ==
  /\ watcher = "Bound"
  /\ record.subcollection
  /\ nParentEv + Len(batch) <= MaxParentEvents
  /\ LET st == handleBindingSubcollection(<<listeners, subs>>, batch)
     IN /\ listeners' = st[1]
        /\ subs' = st[2]
  /\ nParentEv' = nParentEv + Len(batch)
  /\ UNCHANGED <<record, data, out, watcher, handlers, sink, sink0, issued,
                 evlog, failed, unhandled>>
  /\ UNCHANGED <<bridgeVars, cleanupVars, bindVars>>

\* A live subscription delivers a batch of document changes to the callback
\* handleSnapshot(parentSnap) returned: every handler runs to its first await.
DeliverDocs(h, batch) ==
  /\ watcher = "Bound"
  /\ h \in DOMAIN subs
  /\ subs[h].live
  /\ (subs[h].parent = Root) = ~record.subcollection
  /\ Len(evlog) + Len(batch) <= MaxDocEvents
  /\ LET ev0 == Len(evlog)
         calls == batchCalls(record, ev0, h, batch)
     IN /\ evlog' = evlog \o [i \in DOMAIN batch |->
                       [sub |-> h, batch |-> ev0 + 1, kind |-> batch[i].kind,
                        id |-> batch[i].id, data |-> batch[i].data]]
        /\ issued' = issued \o calls
        /\ handlers' = handlers \cup Range(calls)
  /\ UNCHANGED <<record, data, out, watcher, subs, listeners, nParentEv,
                 sink, sink0, failed, unhandled>>
  /\ UNCHANGED <<bridgeVars, cleanupVars, bindVars>>

\* The sink executes the call a handler awaits and the handler resumes.
Complete(call) ==
  /\ call \in handlers
  /\ LET r == SinkApply(sink, call)
     IN /\ sink' = r[1]
        /\ IF call.op = "exists"
           THEN LET next == addedWrite(call, r[2] = "true")
                IN /\ handlers' = (handlers \ {call}) \cup {next}
                   /\ issued' = Append(issued, next)
                   /\ UNCHANGED <<subs, unhandled>>
           ELSE /\ issued' = issued
                /\ IF r[2] = "err"
                   THEN LET st == onReject(<<handlers, subs, unhandled>>, call)
                        IN /\ handlers' = st[1]
                           /\ subs' = st[2]
                           /\ unhandled' = st[3]
                   ELSE /\ handlers' = handlers \ {call}
                        /\ UNCHANGED <<subs, unhandled>>
  /\ UNCHANGED <<record, data, out, watcher, listeners, nParentEv,
                 sink0, evlog, failed>>
  /\ UNCHANGED <<bridgeVars, cleanupVars, bindVars>>

\* The sink call a handler awaits is rejected (sink unavailable).
Fail(call) ==
  /\ call \in handlers
  /\ Cardinality(failed) < MaxFailures
  /\ failed' = failed \cup {call.ev}
  /\ LET st == onReject(<<handlers, subs, unhandled>>, call)
     IN /\ handlers' = st[1]
        /\ subs' = st[2]
        /\ unhandled' = st[3]
  /\ UNCHANGED <<record, data, out, watcher, listeners, nParentEv,
                 sink, sink0, issued, evlog>>
  /\ UNCHANGED <<bridgeVars, cleanupVars, bindVars>>

\* ============================================================ SearchHandler
\* Config.CLEANUP_INTERVAL, in clock ticks
CleanupInterval == 1

RecIds == {"q1", "q2"}

\* The value of snap.data()[this.reqKey], as a JavaScript value.
JsUndefined == [t |-> "undefined"]
JsNullV == [t |-> "null"]
JsString(str) == [t |-> "string", s |-> str]
JsObject(m) == [t |-> "object", m |-> m]

\* typeof request
typeofJs(v) == IF v.t = "null" THEN "object" ELSE v.t

\* Request objects: a mapping from the properties present to their values
ReqFull == [k \in {"index", "type", "q"} |-> IF k = "q" THEN "invoice" ELSE "emails"]
ReqBody == [k \in {"index", "type", "body"} |-> IF k = "body" THEN "match_all" ELSE "emails"]
ReqNoIndex == [k \in {"type"} |-> "emails"]
ReqNoType == [k \in {"index", "q"} |-> IF k = "q" THEN "invoice" ELSE "emails"]
ReqNoQuery == [k \in {"index", "type"} |-> "emails"]

\* JSON texts a caller may store instead of an object
TextFull == "{\"index\":\"emails\",\"type\":\"emails\",\"q\":\"invoice\"}"
TextNoIndex == "{\"type\":\"emails\"}"
TextNull == "null"
TextBad == "{index:"

\* JSON.parse: Some(value), or None for a SyntaxError. The argument is
\* converted to a string first, so undefined reads "undefined" and fails.
JsonParse(v) ==
  IF v.t # "string" THEN None
  ELSE CASE v.s = TextFull -> Some(JsObject(ReqFull))
         [] v.s = TextNoIndex -> Some(JsObject(ReqNoIndex))
         [] v.s = TextNull -> Some(JsNullV)
         [] OTHER -> None

\* process, lines 44-52: parse whatever is not an object, ignore a failure
parseRequest(v) ==
  IF typeofJs(v) # "object"
  THEN LET parsed == JsonParse(v)
       IN IF parsed = None THEN v ELSE parsed[1]
  ELSE v

\* request.<key>: TypeError on null and undefined, undefined (falsy) when
\* the property is missing
Dereferences(v) == v.t \notin {"null", "undefined"}
PropTruthy(v, key) == v.t = "object" /\ key \in DOMAIN v.m /\ v.m[key] # ""

\* (a validation that accepts a request as soon as it names an index)
invalidRequest_indexOnly(v) == ~PropTruthy(v, "index")

\* !request.index || !request.type || (!request.q && !request.body)
invalidRequest(v) ==
  \/ ~PropTruthy(v, "index")
  \/ ~PropTruthy(v, "type")
  \/ (~PropTruthy(v, "q") /\ ~PropTruthy(v, "body"))

\* (the source quotes index, type, q and body with backquotes)
ValidationMessage ==
  "Queries are required to have an 'index', 'type' and either a 'q':string or 'body'"

\* respondError: the data written under this.resKey
errorResponse(message) == [total |-> 0, error |-> message]

\* Search results of the sink: hits carry _id and _source
Hit(id, src) == [_id |-> id, _source |-> src]
HitLists ==
  {<< >>, <<Hit("e1", "s1")>>, <<Hit("e1", "s1"), Hit("e2", "s2")>>,
   <<Hit("e2", "s2"), Hit("e1", "s1")>>, <<Hit("e1", "s1"), Hit("e1", "s2")>>}
SearchResponses ==
  {[error |-> None, total |-> Len(hs), hits |-> Some(hs)] : hs \in HitLists}
  \cup {[error |-> None, total |-> 0, hits |-> None],
        [error |-> Some("index_not_found_exception"), total |-> 0, hits |-> None]}
\* the (error, response) pair handed to the search callback
SearchOutcomes ==
  {[error |-> Some("No Living connections"), response |-> None]}
  \cup {[error |-> None, response |-> Some(r)] : r \in SearchResponses}

\* (hits left as the sequence the sink returned)
rekey_keepsSequence(hs) == hs

\* respond, lines 72-76: temp[hit._id] = hit for every hit, in order
rekey(hs) ==
  [id \in {hs[i]._id : i \in DOMAIN hs} |->
     hs[CHOOSE i \in DOMAIN hs : hs[i]._id = id /\ \A j \in DOMAIN hs : hs[j]._id = id => j <= i]]

\* send: the response with its hits re-keyed and a timestamp
sentResponse(r, t) ==
  [total |-> r.total,
   hits |-> IF r.hits # None THEN Some(rekey(r.hits[1])) ELSE None,
   timestamp |-> t]

\* respond: an error inside the response goes to respondError
respond(r, t) ==
  IF r.error # None THEN errorResponse(r.error[1]) ELSE sentResponse(r, t)

\* the search callback, lines 58-63
searchCallback(o, t) ==
  IF o.error # None THEN errorResponse(o.error[1]) ELSE respond(o.response[1], t)

Write(id, resp) == [id |-> id, resp |-> resp]

\* (a listener that processes every change, whatever its type)
processes_anyType(type) == TRUE

\* handleSnapshot: if (type === "added")
processes(type) == type = "added"

\* process(change.doc) on <<searches, writes, stats, thrown>>; a TypeError
\* leaves by the snapshot callback.
process(st, id, v) ==
  LET req == parseRequest(v)
      seen == [st[3] EXCEPT ![id].proc = @ + 1]
  IN IF ~Dereferences(req) THEN <<st[1], st[2], seen, TRUE>>
     ELSE IF invalidRequest(req)
     THEN <<st[1], st[2] \cup {Write(id, errorResponse(ValidationMessage))},
            [seen EXCEPT ![id].write = @ + 1, ![id].at = Some(now)], st[4]>>
     ELSE <<st[1] \cup {id}, st[2], [seen EXCEPT ![id].search = @ + 1], st[4]>>

\* snap.docChanges().forEach: an exception ends the loop
RECURSIVE forEachChange(_, _)
forEachChange(st, changes) ==
  IF changes = << >> \/ st[4] THEN st
  ELSE LET c == Head(changes)
       IN forEachChange(IF processes(c.type) THEN process(st, c.id, created[c.id][1])
                        ELSE st,
                        Tail(changes))

\* The documents of the query where(resKey, '==', null)
Matching == {id \in RecIds : ctl[id] # None /\ ctl[id][1].response = None}
Perms(S) == {q \in [1..Cardinality(S) -> S] : \A i, j \in DOMAIN q : q[i] = q[j] => i = j}
Change(type, id) == [type |-> type, id |-> id]

\* An external caller stores a query request.
CreateRecord(id, v) ==
  /\ created[id] = None
  /\ created' = [created EXCEPT ![id] = Some(v)]
  /\ ctl' = [ctl EXCEPT ![id] = Some([request |-> v, response |-> None])]
  /\ UNCHANGED <<view, searches, writes, stats, thrown>>
  /\ UNCHANGED <<record, data, out, watcher, subs, listeners, nParentEv,
                 handlers, sink, sink0, issued, evlog, failed, unhandled>>
  /\ UNCHANGED <<cleanupVars, bindVars>>

\* The query listener delivers a snapshot: the documents that left the
\* result set since the last one, then those that entered it.
BridgeSnapshot(gone, new) ==
  /\ Range(gone) = view \ Matching
  /\ Range(new) = Matching \ view
  /\ gone \o new # << >>
  /\ LET changes == [i \in DOMAIN gone |-> Change("removed", gone[i])]
                    \o [i \in DOMAIN new |-> Change("added", new[i])]
         st == forEachChange(<<searches, writes, stats, thrown>>, changes)
     IN /\ searches' = st[1]
        /\ writes' = st[2]
        /\ stats' = st[3]
        /\ thrown' = st[4]
  /\ view' = Matching
  /\ UNCHANGED <<ctl, created>>
  /\ UNCHANGED <<record, data, out, watcher, subs, listeners, nParentEv,
                 handlers, sink, sink0, issued, evlog, failed, unhandled>>
  /\ UNCHANGED <<cleanupVars, bindVars>>

\* The sink answers a search and the callback issues the response write.
SearchDone(id, o) ==
  /\ id \in searches
  /\ searches' = searches \ {id}
  /\ writes' = writes \cup {Write(id, searchCallback(o, now))}
  /\ stats' = [stats EXCEPT ![id].write = @ + 1, ![id].result = Some(o),
                              ![id].at = Some(now)]
  /\ UNCHANGED <<ctl, created, view, thrown>>
  /\ UNCHANGED <<record, data, out, watcher, subs, listeners, nParentEv,
                 handlers, sink, sink0, issued, evlog, failed, unhandled>>
  /\ UNCHANGED <<cleanupVars, bindVars>>

\* The store applies ref.update(data).
WriteDone(w) ==
  /\ w \in writes
  /\ writes' = writes \ {w}
  /\ ctl' = IF ctl[w.id] # None
            THEN [ctl EXCEPT ![w.id] = Some([@[1] EXCEPT !.response = Some(w.resp)])]
            ELSE ctl
  /\ UNCHANGED <<created, view, searches, stats, thrown>>
  /\ UNCHANGED <<record, data, out, watcher, subs, listeners, nParentEv,
                 handlers, sink, sink0, issued, evlog, failed, unhandled>>
  /\ UNCHANGED <<cleanupVars, bindVars>>

InitBridge ==
  /\ ctl = [id \in RecIds |-> None]
  /\ created = [id \in RecIds |-> None]
  /\ view = {}
  /\ searches = {}
  /\ writes = {}
  /\ stats = [id \in RecIds |->
               [proc |-> 0, search |-> 0, write |-> 0, result |-> None, at |-> None]]
  /\ thrown = FALSE

\* ------------------------------------------------------------ cleanup sweep
MaxTime == 3

Timer(id, due) == [id |-> id, due |-> due]
HasTimestamp(rec) ==
  rec.response # None /\ "timestamp" \in DOMAIN rec.response[1]

\* (startAt instead of endAt: the records newer than the bound)
staleItems_startAt(c, bound) ==
  {id \in RecIds : c[id] # None /\ HasTimestamp(c[id][1])
                   /\ c[id][1].response[1].timestamp >= bound}

\* orderBy(resKey + '.timestamp').endAt(bound): the records that have a
\* response timestamp, up to the bound
staleItems(c, bound) ==
  {id \in RecIds : c[id] # None /\ HasTimestamp(c[id][1])
                   /\ c[id][1].response[1].timestamp <= bound}

\* the documents of the query result, by ascending timestamp
Sorted(c, q) ==
  \A i, j \in DOMAIN q :
     i < j => c[q[i]][1].response[1].timestamp <= c[q[j]][1].response[1].timestamp

\* (a fixed-rate timer: the next run is armed when a run starts)
onCleanupEntry_fixedRate(ts, k, t) == ts \cup {Timer(0 - k, t + CleanupInterval)}

\* The timers when the cleanup callback starts: nothing is armed there
onCleanupEntry(ts, k, t) == ts

\* lines 111-112 on <<timers, unsubscribe, armed>>: clearTimeout of the
\* handle kept in this.unsubscribe, then setTimeout for the next run
rearm(st, t) ==
  <<{tm \in st[1] : tm.id # st[2]} \cup {Timer(st[3] + 1, t + CleanupInterval)},
    st[3] + 1, st[3] + 1>>

Pass(n, pc, bound, todo, seen) ==
  [n |-> n, pc |-> pc, bound |-> bound, todo |-> todo, seen |-> seen]

Tick ==
  /\ now < MaxTime
  /\ now' = now + 1
  /\ UNCHANGED <<timers, unsubscribe, sweeps, armed>>
  /\ UNCHANGED <<record, data, out, watcher, subs, listeners, nParentEv,
                 handlers, sink, sink0, issued, evlog, failed, unhandled>>
  /\ UNCHANGED <<bridgeVars, bindVars>>

\* A timer fires and cleanup runs to its first await: the query is built
\* with the bound Date.now() - cleanupInterval and sent.
TimerFire(tm) ==
  /\ tm \in timers
  /\ now >= tm.due
  /\ timers' = onCleanupEntry(timers \ {tm}, armed, now)
  /\ sweeps' = sweeps \cup {Pass(tm.id, "query", now - CleanupInterval, << >>, ctl)}
  /\ UNCHANGED <<now, unsubscribe, armed>>
  /\ UNCHANGED <<record, data, out, watcher, subs, listeners, nParentEv,
                 handlers, sink, sink0, issued, evlog, failed, unhandled>>
  /\ UNCHANGED <<bridgeVars, bindVars>>

\* The store answers the query; with no item the pass re-arms the timer at
\* once, otherwise it sends the first delete.
SweepQuery(p, items) ==
  /\ p \in sweeps
  /\ p.pc = "query"
  /\ Range(items) = staleItems(ctl, p.bound)
  /\ Sorted(ctl, items)
  /\ IF items = << >>
     THEN LET st == rearm(<<timers, unsubscribe, armed>>, now)
          IN /\ timers' = st[1]
             /\ unsubscribe' = st[2]
             /\ armed' = st[3]
             /\ sweeps' = sweeps \ {p}
     ELSE /\ sweeps' = (sweeps \ {p}) \cup {Pass(p.n, "delete", p.bound, items, ctl)}
          /\ UNCHANGED <<timers, unsubscribe, armed>>
  /\ UNCHANGED <<now, ctl>>
  /\ UNCHANGED <<created, view, searches, writes, stats, thrown>>
  /\ UNCHANGED <<record, data, out, watcher, subs, listeners, nParentEv,
                 handlers, sink, sink0, issued, evlog, failed, unhandled>>
  /\ UNCHANGED bindVars

\* The store deletes the item awaited; the pass sends the next delete or,
\* after the last one, re-arms the timer.
SweepDelete(p) ==
  /\ p \in sweeps
  /\ p.pc = "delete"
  /\ ctl' = [ctl EXCEPT ![Head(p.todo)] = None]
  /\ IF Tail(p.todo) = << >>
     THEN LET st == rearm(<<timers, unsubscribe, armed>>, now)
          IN /\ timers' = st[1]
             /\ unsubscribe' = st[2]
             /\ armed' = st[3]
             /\ sweeps' = sweeps \ {p}
     ELSE /\ sweeps' = (sweeps \ {p}) \cup {[p EXCEPT !.todo = Tail(p.todo)]}
          /\ UNCHANGED <<timers, unsubscribe, armed>>
  /\ UNCHANGED now
  /\ UNCHANGED <<created, view, searches, writes, stats, thrown>>
  /\ UNCHANGED <<record, data, out, watcher, subs, listeners, nParentEv,
                 handlers, sink, sink0, issued, evlog, failed, unhandled>>
  /\ UNCHANGED bindVars

\* The store call a pass awaits is rejected: cleanup has no try block, the
\* rejection ends the pass before lines 111-112.
SweepFail(p) ==
  /\ p \in sweeps
  /\ sweeps' = sweeps \ {p}
  /\ UNCHANGED <<now, timers, unsubscribe, armed>>
  /\ UNCHANGED <<record, data, out, watcher, subs, listeners, nParentEv,
                 handlers, sink, sink0, issued, evlog, failed, unhandled>>
  /\ UNCHANGED <<bridgeVars, bindVars>>

\* constructor, line 28: the first timer
InitCleanup ==
  /\ now = 0
  /\ timers = {Timer(1, CleanupInterval)}
  /\ unsubscribe = 1
  /\ armed = 1
  /\ sweeps = {}

\* ========================================================= bind, provisioning
Watchers == {"w1", "w2"}
IndexNames == {"emails", "users"}
Binder(mappings, index, pc, sub, found) ==
  [mappings |-> mappings, index |-> index, pc |-> pc, sub |-> sub, found |-> found]
BindCall(w, op) == [w |-> w, op |-> op]
InFlight == {"exists", "create", "putMapping"}

\* (the subscription opened without waiting for the provisioning)
afterAwait_noProvisioning(op, found) == "onSnapshot"

\* bind, lines 42-58: what follows each await
afterAwait(op, found) ==
  CASE op = "exists" -> IF found THEN "onSnapshot" ELSE "create"
    [] op = "create" -> "putMapping"
    [] op = "putMapping" -> "onSnapshot"

\* The sink's answer to an indices call: <<new state of the index, result>>
IndicesApply(state, op) ==
  CASE op = "exists" -> <<state, IF state # "absent" THEN "true" ELSE "false">>
    [] op = "create" -> IF state = "absent" THEN <<"created", "ok">> ELSE <<state, "err">>
    [] op = "putMapping" -> IF state # "absent" THEN <<"mapped", "ok">> ELSE <<state, "err">>

\* bind() up to its next await, or to the subscription
proceed(b, op) ==
  IF op = "onSnapshot" THEN [b EXCEPT !.pc = "Bound", !.sub = TRUE]
  ELSE [b EXCEPT !.pc = op]

\* new FirestoreCollectionHandler(client, record): bind() runs to its first
\* await, or to the subscription when the descriptor has no mappings.
Construct(w) ==
  /\ binders[w].pc = "Unbound"
  /\ LET op == IF binders[w].mappings THEN "exists" ELSE "onSnapshot"
     IN /\ binders' = [binders EXCEPT ![w] = proceed(@, op)]
        /\ blog' = Append(blog, BindCall(w, op))
  /\ UNCHANGED <<indices, bfail>>
  /\ UNCHANGED <<record, data, out, watcher, subs, listeners, nParentEv,
                 handlers, sink, sink0, issued, evlog, failed, unhandled>>
  /\ UNCHANGED <<bridgeVars, cleanupVars>>

\* The sink executes the indices call a bind awaits and the bind resumes; a
\* rejected call ends bind() there.
BindStep(w) ==
  /\ binders[w].pc \in InFlight
  /\ LET b == binders[w]
         r == IndicesApply(indices[b.index], b.pc)
     IN /\ indices' = [indices EXCEPT ![b.index] = r[1]]
        /\ IF r[2] = "err"
           THEN /\ binders' = [binders EXCEPT ![w].pc = "Failed"]
                /\ blog' = blog
           ELSE LET found == r[2] = "true"
                    op == afterAwait(b.pc, found)
                    seen == IF b.pc = "exists" THEN [b EXCEPT !.found = Some(found)] ELSE b
                IN /\ binders' = [binders EXCEPT ![w] = proceed(seen, op)]
                   /\ blog' = Append(blog, BindCall(w, op))
  /\ UNCHANGED bfail
  /\ UNCHANGED <<record, data, out, watcher, subs, listeners, nParentEv,
                 handlers, sink, sink0, issued, evlog, failed, unhandled>>
  /\ UNCHANGED <<bridgeVars, cleanupVars>>

\* The indices call a bind awaits is rejected (sink unavailable).
BindFail(w) ==
  /\ binders[w].pc \in InFlight
  /\ Cardinality(bfail) < MaxFailures
  /\ bfail' = bfail \cup {w}
  /\ binders' = [binders EXCEPT ![w].pc = "Failed"]
  /\ UNCHANGED <<indices, blog>>
  /\ UNCHANGED <<record, data, out, watcher, subs, listeners, nParentEv,
                 handlers, sink, sink0, issued, evlog, failed, unhandled>>
  /\ UNCHANGED <<bridgeVars, cleanupVars>>

InitBindIdle ==
  /\ binders = [w \in Watchers |-> Binder(FALSE, "emails", "Unbound", FALSE, None)]
  /\ indices = [i \in IndexNames |-> "absent"]
  /\ blog = << >>
  /\ bfail = {}

\* --------------------------------------------------------- specifications
InitCommon ==
  /\ watcher = "Unbound"
  /\ subs = << >>
  /\ listeners = [p \in Parents |-> 0]
  /\ nParentEv = 0
  /\ handlers = {}
  /\ issued = << >>
  /\ evlog = << >>
  /\ failed = {}
  /\ unhandled = FALSE
  /\ sink0 = sink
  /\ InitBridge
  /\ InitCleanup
  /\ InitBindIdle

EmptySink == [id \in DocIds |-> None]

\* A descriptor without subcollection: document changes arrive on the root
\* subscription.
RootPayloads == {<<Field("a", JsOne)>>, <<Field("b", JsOne), Field("a", JsZero)>>}
Rec(subc, flt, inc, exc, tr) ==
  [subcollection |-> subc, filter |-> flt, include |-> inc, exclude |-> exc,
   transform |-> tr]
RootRecords ==
  {Rec(FALSE, None, None, None, FALSE),
   Rec(FALSE, Some("aTruthy"), None, None, FALSE),
   Rec(FALSE, None, Some({"a"}), Some({"b"}), TRUE)}

InitRoot ==
  /\ record \in RootRecords
  /\ data = None
  /\ out = None
  /\ sink = EmptySink
  /\ InitCommon

\* d1 added, modified and removed, and d2 added beside it
RootEvents ==
  {DocEvent("added", "d1", obj) : obj \in RootPayloads}
  \cup {DocEvent("modified", "d1", <<Field("b", JsOne), Field("a", JsZero)>>),
        DocEvent("removed", "d1", << >>),
        DocEvent("added", "d2", <<Field("a", JsOne)>>)}

NextRoot ==
  \/ Bind
  \/ \E batch \in BatchesOf(RootEvents) : DeliverDocs(1, batch)
  \/ \E call \in handlers : Complete(call)
  \/ \E call \in handlers : Fail(call)

SpecRoot == InitRoot /\ [][NextRoot]_vars

\* A subcollection descriptor: the root subscription delivers parent changes,
\* the per-parent subscriptions deliver document changes.
SubPayloads == {<<Field("a", JsOne)>>}
SubRecords == {Rec(TRUE, None, None, None, FALSE)}

InitSub ==
  /\ record \in SubRecords
  /\ data = None
  /\ out = None
  /\ sink = EmptySink
  /\ InitCommon

SubEvents ==
  {DocEvent("added", "d1", obj) : obj \in SubPayloads}
  \cup {DocEvent("removed", "d1", << >>)}

NextSub ==
  \/ Bind
  \/ \E batch \in BatchesOf(ParentEvents) : DeliverParents(batch)
  \/ \E h \in DOMAIN subs, batch \in BatchesOf(SubEvents) :
        Len(evlog) + Len(batch) <= MaxSubDocEvents /\ DeliverDocs(h, batch)
  \/ \E call \in handlers : Complete(call)

SpecSub == InitSub /\ [][NextSub]_vars

\* The same Added event delivered Deliveries times on the root subscription,
\* in one batch or in several, against a sink that may already hold records.
Deliveries == 2
SinkSources == {ToSource(obj) : obj \in RootPayloads} \cup {ToSource(<<Field("b", JsZero)>>)}

InitRedeliver ==
  /\ record \in RootRecords
  /\ data = None
  /\ out = None
  /\ sink \in [DocIds -> {None} \cup {Some(src) : src \in SinkSources}]
  /\ InitCommon

Redeliver(e, n) ==
  /\ Len(evlog) + n <= Deliveries
  /\ \A i \in DOMAIN evlog :
        evlog[i].kind = e.kind /\ evlog[i].id = e.id /\ evlog[i].data = e.data
  /\ DeliverDocs(1, [i \in 1..n |-> e])

NextRedeliver ==
  \/ Bind
  \/ \E id \in DocIds, obj \in RootPayloads, n \in 1..MaxBatch :
        Redeliver(DocEvent("added", id, obj), n)
  \/ \E call \in handlers : Complete(call)

SpecRedeliver == InitRedeliver /\ [][NextRedeliver]_vars

\* The record filter as a function: every document, every include / exclude
\* choice, with and without a filter predicate.
FilterRecords ==
  Records({FALSE}, {None} \cup {Some(fn) : fn \in FilterFns}, OptKeySets, OptKeySets, {FALSE})

InitFilter ==
  /\ record \in FilterRecords
  /\ data \in {Some(obj) : obj \in ObjectsOver(Keys, Values)}
  /\ out = None
  /\ sink = EmptySink
  /\ InitCommon

ApplyFilter ==
  /\ out = None
  /\ data # None
  /\ out' = Some(filter(record, data[1]))
  /\ UNCHANGED <<record, data, watcher, subs, listeners, nParentEv, handlers,
                 sink, sink0, issued, evlog, failed, unhandled>>
  /\ UNCHANGED <<bridgeVars, cleanupVars, bindVars>>

NextFilter == ApplyFilter

SpecFilter == InitFilter /\ [][NextFilter]_vars

\* =================================================================== claims
ChildSubs == {h \in DOMAIN subs : subs[h].parent # Root}
LiveSubs == {h \in DOMAIN subs : subs[h].live}

\* C1: in subcollection mode there is at most one live subcollection
\* subscription per parentId, and every live one is the one the registry
\* holds under its parentId.
C1_OneLivePerParent ==
  /\ \A h1 \in ChildSubs \cap LiveSubs, h2 \in ChildSubs \cap LiveSubs :
        subs[h1].parent = subs[h2].parent => h1 = h2
  /\ \A h \in ChildSubs \cap LiveSubs : listeners[subs[h].parent] = h

\* The registry state just before the last change of a batch
BeforeLast(batch) ==
  handleBindingSubcollection(<<listeners, subs>>, SubSeq(batch, 1, Len(batch) - 1))
Last(batch) == batch[Len(batch)]

\* C2: a Removed event for a parentId with a registered subscription cancels
\* that subscription and removes the registry entry, so that afterwards the
\* registry holds no entry for that parentId.
C2_RemovedClearsEntry ==
  [][\A batch \in BatchesOf(ParentEvents) :
       (DeliverParents(batch) /\ Last(batch).kind = "removed"
          /\ BeforeLast(batch)[1][Last(batch).id] # 0)
       => /\ ~subs'[BeforeLast(batch)[1][Last(batch).id]].live
          /\ listeners'[Last(batch).id] = 0]_vars

\* C3: a parent event changes the registry only at its own parentId. A batch
\* leaves the entry and the subscriptions of every parent it has no Added or
\* Removed event for unchanged; a batch of Modified events and of Removed
\* events for unregistered parents changes nothing, raises nothing and opens
\* nothing; an Added for Q registers a new live subscription for Q.
Touches(batch, q) ==
  \E i \in DOMAIN batch : batch[i].id = q /\ batch[i].kind # "modified"
C3_RegistryFrame ==
  [][\A batch \in BatchesOf(ParentEvents) :
       DeliverParents(batch)
       => /\ \A q \in Parents :
               ~Touches(batch, q)
               => /\ listeners'[q] = listeners[q]
                  /\ \A h \in DOMAIN subs' :
                        subs'[h].parent = q => (h \in DOMAIN subs /\ subs'[h] = subs[h])
          /\ (\A i \in DOMAIN batch :
                 \/ batch[i].kind = "modified"
                 \/ batch[i].kind = "removed" /\ listeners[batch[i].id] = 0)
             => /\ listeners' = listeners
                /\ subs' = subs
                /\ unhandled' = unhandled
                /\ handlers' = handlers
                /\ issued' = issued
          /\ Last(batch).kind = "added"
             => /\ listeners'[Last(batch).id] = Len(subs')
                /\ subs'[Len(subs')] = Sub(Last(batch).id)]_vars

\* P's subscription is cancelled while another parent's is live and registered
C3_Witness ==
  \E h1 \in ChildSubs, h2 \in ChildSubs :
     /\ subs[h1].parent # subs[h2].parent
     /\ ~subs[h1].live
     /\ subs[h2].live
     /\ listeners[subs[h2].parent] = h2

\* C7: once a subcollection subscription is cancelled it is inert: no event
\* is delivered through it and no sink call is issued on its behalf.
C7_CancelledIsInert ==
  [][/\ \A i \in (Len(evlog) + 1)..Len(evlog') : subs[evlog'[i].sub].live
     /\ \A i \in (Len(issued) + 1)..Len(issued') : subs[issued'[i].sub].live]_vars

\* ------------------------------------------------------- dispatcher claims
Writes == {"index", "upsert", "update", "delete"}
Quiescent == watcher = "Bound" /\ handlers = {}
EventsOf(id) == {n \in DOMAIN evlog : evlog[n].id = id}
Max(S) == CHOOSE n \in S : \A m \in S : m <= n
\* the descriptor's filter returns false for the payload
Suppressed(e) ==
  /\ e.kind \in {"added", "modified"}
  /\ record.filter # None
  /\ ~FilterCall(record.filter[1], e.data)

\* Source order of one document's events on one subscription: Added first,
\* Modified and Removed only while the document exists, Added again after a
\* Removed or as a redelivery.
SourceOrder(id) ==
  LET E == EventsOf(id)
  IN /\ \A n \in E, m \in E : evlog[n].sub = evlog[m].sub
     /\ \A n \in E :
          LET before == {m \in E : m < n}
          IN IF before = {} THEN evlog[n].kind = "added"
             ELSE evlog[n].kind # "added" => evlog[Max(before)].kind # "removed"

Reflects(src, body) ==
  \A key \in DOMAIN body : key \in DOMAIN src /\ src[key] = body[key]

\* C4: eventual convergence. After a sequence of events for one document in
\* source order, all passing the filter, with no sink failure, once no sink
\* call is in flight the sink holds a record for the document iff the last
\* event was not Removed, and the record carries the fields of the last
\* Added / Modified payload.
C4_Convergence ==
  (Quiescent /\ failed = {})
  => \A id \in DocIds :
        (EventsOf(id) # {} /\ SourceOrder(id)
           /\ \A n \in EventsOf(id) : ~Suppressed(evlog[n]))
        => LET last == evlog[Max(EventsOf(id))]
           IN /\ (sink[id] # None) <=> (last.kind # "removed")
              /\ (last.kind # "removed" /\ sink[id] # None)
                 => Reflects(sink[id][1], ToSource(pipeline(record, last.data)[1]))

\* C5: for two events e1 before e2 of one batch that concern the same
\* document, every sink write issued for e1 is issued before any sink write
\* issued for e2.
C5_BatchOrder ==
  \A i \in DOMAIN issued, j \in DOMAIN issued :
     (/\ issued[i].op \in Writes
      /\ issued[j].op \in Writes
      /\ issued[i].id = issued[j].id
      /\ evlog[issued[i].ev].batch = evlog[issued[j].ev].batch
      /\ issued[i].ev < issued[j].ev)
     => i < j

\* The record processing an Added event once leaves in the sink
OnceRecord(s0, e) ==
  LET src == ToSource(pipeline(record, e.data)[1])
  IN IF s0[e.id] = None THEN src ELSE Merge(s0[e.id][1], src)

\* C6: the same Added event delivered twice, under every interleaving of the
\* exists checks and the writes, ends with one sink record at its id, equal
\* to the record processing the event once produces, and no other record
\* changed.
C6_AddedIdempotent ==
  (Quiescent /\ Len(evlog) = Deliveries /\ ~Suppressed(evlog[1]))
  => /\ sink[evlog[1].id] = Some(OnceRecord(sink0, evlog[1]))
     /\ \A id \in DocIds \ {evlog[1].id} : sink[id] = sink0[id]

\* both deliveries saw the document absent, or the second found the first's
C6_Witness ==
  /\ Quiescent
  /\ Len(evlog) = Deliveries
  /\ ~Suppressed(evlog[1])
  /\ \E i \in DOMAIN issued, j \in DOMAIN issued :
        i < j /\ issued[i].op = "index" /\ issued[j].op \in {"index", "upsert"}

\* has event n been dispatched to a sink call?
Dispatched(n) == dispatch(record, n, evlog[n].sub, evlog[n]) # None
FinalOps(n) ==
  IF evlog[n].kind = "added" THEN {"index", "upsert"}
  ELSE IF evlog[n].kind = "modified" THEN {"update"} ELSE {"delete"}

\* C8: a failing sink call is contained to its event. No rejection escapes
\* the snapshot callback, the subscription that delivered the event stays
\* live, and every other event is still processed: its handler is in flight
\* or its write has been issued.
C8_FailureContained ==
  /\ ~unhandled
  /\ \A n \in DOMAIN evlog : subs[evlog[n].sub].live
  /\ \A n \in DOMAIN evlog :
        (Dispatched(n) /\ n \notin failed)
        => \/ \E call \in handlers : call.ev = n
           \/ \E i \in DOMAIN issued : issued[i].ev = n /\ issued[i].op \in FinalOps(n)

\* one event of a batch failed, the other one of the batch got its write
C8_Witness ==
  \E n \in failed, m \in DOMAIN evlog :
     /\ m # n
     /\ evlog[m].batch = evlog[n].batch
     /\ \E i \in DOMAIN issued : issued[i].ev = m /\ issued[i].op \in FinalOps(m)
     /\ handlers = {}

\* C9: when the filter returns false for the payload of an Added or Modified
\* event, no sink call of any kind is issued for that event.
C9_SuppressedIssuesNothing ==
  \A n \in DOMAIN evlog :
     Suppressed(evlog[n])
     => /\ \A i \in DOMAIN issued : issued[i].ev # n
        /\ \A call \in handlers : call.ev # n

\* a Modified event is suppressed while the sink holds the document's record
C9_Witness ==
  \E n \in DOMAIN evlog :
     /\ Suppressed(evlog[n])
     /\ evlog[n].kind = "modified"
     /\ sink[evlog[n].id] # None
     /\ handlers = {}

\* --------------------------------------------------------- filter claims
ExpectedKeys(rec, obj) ==
  (IF rec.include = None THEN KeysOf(obj) ELSE rec.include[1] \cap KeysOf(obj))
  \ (IF rec.exclude = None THEN {} ELSE rec.exclude[1])

\* C10: for every document passing the filter the key set of the projected
\* output is (include /\ keys(d)) minus exclude, whatever the field values,
\* and every kept key keeps its value.
C10_Projection ==
  (out # None /\ out[1] # None)
  => LET res == out[1][1]
     IN /\ KeysOf(res) = ExpectedKeys(record, data[1])
        /\ \A i \in DOMAIN res :
              res[i].v = data[1][Get(data[1], res[i].k)].v

\* ------------------------------------------------- SearchHandler, the bridge
InitHandlerIdle ==
  /\ record = Rec(FALSE, None, None, None, FALSE)
  /\ data = None
  /\ out = None
  /\ sink = EmptySink
  /\ watcher = "Unbound"
  /\ subs = << >>
  /\ listeners = [p \in Parents |-> 0]
  /\ nParentEv = 0
  /\ handlers = {}
  /\ issued = << >>
  /\ evlog = << >>
  /\ failed = {}
  /\ unhandled = FALSE
  /\ sink0 = sink

\* Every kind of request value a caller may store
RequestValues ==
  {JsObject(m) : m \in {ReqFull, ReqBody, ReqNoIndex, ReqNoType, ReqNoQuery}}
  \cup {JsString(str) : str \in {TextFull, TextNoIndex, TextNull, TextBad}}
  \cup {JsUndefined, JsNullV}

InitSearch ==
  /\ InitHandlerIdle
  /\ InitBridge
  /\ InitCleanup
  /\ InitBindIdle

NextBridge ==
  \/ \E id \in RecIds, v \in RequestValues : CreateRecord(id, v)
  \/ \E gone \in Perms(view \ Matching), new \in Perms(Matching \ view) :
        BridgeSnapshot(gone, new)
  \/ \E id \in searches, o \in SearchOutcomes : SearchDone(id, o)
  \/ \E w \in writes : WriteDone(w)

SpecBridge == InitSearch /\ [][NextBridge]_vars

\* The bridge with the cleanup sweep and the clock: one valid and one
\* invalid request, one successful and one failing search.
SweepRequests == {JsObject(ReqFull), JsObject(ReqNoIndex)}
SweepOutcomes ==
  {[error |-> Some("No Living connections"), response |-> None],
   [error |-> None,
    response |-> Some([error |-> None, total |-> 1, hits |-> Some(<<Hit("e1", "s1")>>)])]}

NextCleanup ==
  \/ \E id \in RecIds, v \in SweepRequests : CreateRecord(id, v)
  \/ \E gone \in Perms(view \ Matching), new \in Perms(Matching \ view) :
        BridgeSnapshot(gone, new)
  \/ \E id \in searches, o \in SweepOutcomes : SearchDone(id, o)
  \/ \E w \in writes : WriteDone(w)
  \/ Tick
  \/ \E tm \in timers : TimerFire(tm)
  \/ \E p \in sweeps : \E items \in Perms(staleItems(ctl, p.bound)) : SweepQuery(p, items)
  \/ \E p \in sweeps : SweepDelete(p)
  \/ \E p \in sweeps : SweepFail(p)

SpecCleanup == InitSearch /\ [][NextCleanup]_vars

\* ------------------------------------------------------- bind, several handlers
InitBind ==
  /\ InitHandlerIdle
  /\ InitBridge
  /\ InitCleanup
  /\ binders \in [Watchers -> {Binder(m, i, "Unbound", FALSE, None) :
                                 m \in BOOLEAN, i \in IndexNames}]
  /\ indices \in [IndexNames -> {"absent", "mapped"}]
  /\ blog = << >>
  /\ bfail = {}

NextBind ==
  \/ \E w \in Watchers : Construct(w)
  \/ \E w \in Watchers : BindStep(w)
  \/ \E w \in Watchers : BindFail(w)

SpecBind == InitBind /\ [][NextBind]_vars

\* ------------------------------------------------------------ bridge claims
Unanswered(id) == ctl[id] # None /\ ctl[id][1].response = None
Answered(id) == ctl[id] # None /\ ctl[id][1].response # None
Response(id) == ctl[id][1].response[1]

\* C11: whatever the request of a record observed without a response,
\* processing raises no error and the record gets a response: no error
\* leaves the snapshot callback, and an observed record still without a
\* response has its search or its response write in flight.
C11_AlwaysAnswered ==
  /\ ~thrown
  /\ \A id \in view :
        Unanswered(id) => (id \in searches \/ \E w \in writes : w.id = id)

\* The request the caller stored, read as an object: the object itself, or
\* the object its JSON text denotes
StoredObject(v) ==
  IF v.t = "object" THEN Some(v.m)
  ELSE IF v.t = "string" /\ JsonParse(v) # None /\ JsonParse(v)[1].t = "object"
  THEN Some(JsonParse(v)[1].m)
  ELSE None
Lacks(m) ==
  \/ "index" \notin DOMAIN m
  \/ "type" \notin DOMAIN m
  \/ ("q" \notin DOMAIN m /\ "body" \notin DOMAIN m)
LacksFields(id) ==
  /\ created[id] # None
  /\ StoredObject(created[id][1]) # None
  /\ Lacks(StoredObject(created[id][1])[1])

\* C12: for a request without index, without type, or with neither q nor
\* body, the response written is exactly {total: 0, error: <the validation
\* message>} and no search is issued for the record.
C12_InvalidRequest ==
  \A id \in RecIds :
     LacksFields(id)
     => /\ stats[id].search = 0
        /\ \A w \in writes : w.id = id => w.resp = [total |-> 0, error |-> ValidationMessage]
        /\ Answered(id) => Response(id) = [total |-> 0, error |-> ValidationMessage]
        /\ (stats[id].proc > 0 /\ Unanswered(id)) => \E w \in writes : w.id = id

C12_Witness ==
  \E id \in RecIds :
     /\ LacksFields(id)
     /\ created[id][1].t = "string"
     /\ Answered(id)

\* the hit list a successful search returned for the record
SearchHits(id) == stats[id].result[1].response[1].hits[1]
Succeeded(id) ==
  /\ stats[id].result # None
  /\ stats[id].result[1].error = None
  /\ stats[id].result[1].response[1].error = None
  /\ stats[id].result[1].response[1].hits # None

\* C13: after a successful search the response written carries a timestamp
\* and its hits are a mapping whose keys are the hit identifiers of the
\* result, each identifier mapped to the hit with that identifier.
C13_HitsByIdentifier ==
  \A id \in RecIds :
     (Answered(id) /\ Succeeded(id))
     => /\ "timestamp" \in DOMAIN Response(id)
        /\ Response(id).hits # None
        /\ LET hits == Response(id).hits[1]
               found == SearchHits(id)
           IN /\ DOMAIN hits = {found[i]._id : i \in DOMAIN found}
              /\ \A key \in DOMAIN hits :
                    hits[key]._id = key /\ hits[key] \in Range(found)

C13_Witness ==
  \E id \in RecIds :
     Answered(id) /\ Succeeded(id) /\ Len(SearchHits(id)) = 2

\* C14: a control record is consumed at most once: at most one search and
\* one response write per record, and a record that has a response is not
\* processed again.
C14_ConsumedOnce ==
  /\ [](\A id \in RecIds : stats[id].search <= 1 /\ stats[id].write <= 1)
  /\ [][\A id \in RecIds : Answered(id) => stats'[id].proc = stats[id].proc]_vars

\* an answered record has left the listener's result set in a later snapshot
C14_Witness ==
  \E id \in RecIds :
     Answered(id) /\ id \notin view /\ stats[id].search = 1 /\ stats[id].write = 1

\* ----------------------------------------------------------- cleanup claims
\* a pass of the sweep ends with this step, its timer re-armed
Finishes(p) == p \in sweeps /\ p \notin sweeps' /\ armed' = armed + 1
TimestampIn(c, id) == c[id][1].response[1].timestamp

\* C15: a sweep run at time now deletes every control record whose response
\* timestamp is older than now minus the retention interval, and deletes no
\* record with a newer timestamp and no record without a response.
C15_SweepSelection ==
  [][/\ \A p \in sweeps :
           Finishes(p)
           => \A id \in RecIds :
                 (/\ p.seen[id] # None
                  /\ HasTimestamp(p.seen[id][1])
                  /\ TimestampIn(p.seen, id) < p.bound)
                 => ctl'[id] = None
     /\ \A id \in RecIds :
           (ctl[id] # None /\ ctl'[id] = None)
           => /\ Answered(id)
              /\ HasTimestamp(ctl[id][1])
              /\ \E p \in sweeps : ~(TimestampIn(ctl, id) > p.bound)]_vars

\* one record swept, a newer answered one kept
C15_Witness ==
  /\ \E id \in RecIds : created[id] # None /\ ctl[id] = None
  /\ \E id \in RecIds : Answered(id) /\ HasTimestamp(ctl[id][1])
  /\ sweeps = {}
  /\ armed > 1

\* C16: every record that has received a response, search result or error
\* response, is deleted by the sweep once the response is older than the
\* retention interval: a pass that ends leaves no record it found answered
\* before its bound.
C16_AnsweredAreSwept ==
  [][\A p \in sweeps :
        Finishes(p)
        => \A id \in RecIds :
              (/\ p.seen[id] # None
               /\ p.seen[id][1].response # None
               /\ stats[id].at # None
               /\ stats[id].at[1] < p.bound)
              => ctl'[id] = None]_vars

\* C17: cleanup passes never overlap: at most one pass is in progress, at
\* most one timer is pending, and no timer is pending while a pass is.
C17_NoOverlap ==
  /\ Cardinality(sweeps) <= 1
  /\ Cardinality(timers) <= 1
  /\ sweeps # {} => timers = {}

\* a later pass is deleting while time has moved on
C17_Witness ==
  \E p \in sweeps : p.pc = "delete" /\ armed > 1 /\ now > p.bound + CleanupInterval

\* C19: after every cleanup run, a failing one included, a next run is
\* scheduled: whenever no pass is in progress a timer is pending.
C19_AlwaysRescheduled ==
  sweeps = {} => timers # {}

\* ------------------------------------------------------------- bind claims
IssuedBy(w, op) == {i \in DOMAIN blog : blog[i].w = w /\ blog[i].op = op}
Before(A, B) == \A j \in B : \E i \in A : i < j

\* C18: with a mapping schema no subscription is opened while provisioning
\* is in flight: the existence check precedes the creation, the creation
\* precedes putMapping, the subscription follows them, creation and
\* putMapping are skipped when the index exists; a Bound handler stays Bound.
C18_BindOrder ==
  /\ [](\A w \in Watchers :
          /\ binders[w].sub => binders[w].pc = "Bound"
          /\ binders[w].mappings
             => /\ Before(IssuedBy(w, "exists"), IssuedBy(w, "create"))
                /\ Before(IssuedBy(w, "create"), IssuedBy(w, "putMapping"))
                /\ Before(IssuedBy(w, "exists"), IssuedBy(w, "onSnapshot"))
                /\ binders[w].found = Some(FALSE)
                   => Before(IssuedBy(w, "putMapping"), IssuedBy(w, "onSnapshot"))
                /\ binders[w].found = Some(TRUE)
                   => IssuedBy(w, "create") \cup IssuedBy(w, "putMapping") = {}
                /\ (binders[w].sub /\ bfail = {}) => indices[binders[w].index] # "absent")
  /\ [][\A w \in Watchers : binders[w].pc = "Bound" => binders'[w].pc = "Bound"]_vars

\* a handler provisioned its index and is Bound, another found it existing
C18_Witness ==
  \E w1 \in Watchers, w2 \in Watchers :
     /\ binders[w1].pc = "Bound" /\ binders[w1].found = Some(FALSE)
     /\ binders[w2].pc = "Bound" /\ binders[w2].found = Some(TRUE)

\* C20: two handlers provisioning the same index concurrently both reach
\* Bound: with no sink failure, no bind() ends without its subscription.
C20_BothBound ==
  bfail = {} => \A w \in Watchers : binders[w].pc # "Failed"
====
